---- MODULE Spec2Model ----
(***************************************************************************)
(* uui_perf: a long-running probe that, cycle after cycle, measures DNS    *)
(* and ping latencies, appends one row per cycle to a CSV file and sleeps. *)
(* The model follows src/uui_perf.py statement by statement: main (lines   *)
(* 147-208), collect_readings (112-121), get_dns_latency_ms (61-109),      *)
(* get_ping_latency_ms (42-58) and signal_handler (137-144).               *)
(*                                                                         *)
(* Elapsed times are integers (milliseconds); a mean is kept as the exact  *)
(* fraction [num, den] that Python's float division approximates.          *)
(***************************************************************************)
EXTENDS Integers, Sequences, FiniteSets, TLC

VARIABLES
    pc,                \* position of main / collect_readings
    exit_flag,         \* the module global of line 26
    handler_installed, \* whether the host installed signal_handler
    interval,          \* args.interval, by class
    store,             \* rows of the CSV file at args.csvpath
    cycle,             \* iterations of collect_readings' loop begun so far
    times,             \* the list `times` of the aggregator that is running
    outcomes,          \* what the network answered to that aggregator
    dns_latency_ms,    \* local of collect_readings (line 114)
    latency_ms,        \* local of collect_readings (line 115)
    exc,               \* what was raised and where: the exception caught by
                       \* line 190 or escaped from main, or the killing signal
    last_log,          \* the latest logger call
    status,            \* value returned by main
    term_requested,    \* a SIGINT or SIGTERM has been delivered
    must_cancel,       \* asyncio has a cancellation pending for main's task
    slept,             \* line 121 has completed since the latest append
    at_flag,           \* cycle and row count when exit_flag was first set
    appends,           \* cycles whose append (lines 118-120) has completed
    header_writes,     \* times line 177 has written the header
    probed,            \* targets the running aggregator has probed, in order
    at_request         \* cycle, and whether one was in flight, at the first
                       \* SIGINT or SIGTERM

vars == << pc, exit_flag, handler_installed, interval, store, cycle, times,
           outcomes, dns_latency_ms, latency_ms, exc, last_log, status,
           term_requested, must_cancel, slept, at_flag, appends,
           header_writes, probed, at_request >>

----------------------------------------------------------------------------
(* Bounds *)

\* Iterations of collect_readings' loop that the model lets begin.
MaxCycles == 2

----------------------------------------------------------------------------
(* Static tables and constants of the program *)

\* lines 28-33: provider name -> addresses, in insertion order
dns_servers ==
    << << "208.67.222.222", "208.67.220.220" >>,
       << "1.1.1.1", "1.0.0.1" >>,
       << "8.8.8.8", "8.8.4.4" >>,
       << "149.112.112.112" >> >>

\* line 63
dns_name == "uui.org"

\* lines 35-39
ping_servers == << "dns.google.com", "yahoo.com", "ping.ubnt.com" >>

\* line 174
csvfields == << "Local_Date", "DNS_Latency_ms", "PING_Latency_ms" >>

\* line 208: return 0
CleanStatus == 0

RECURSIVE Flatten(_)
Flatten(ss) == IF ss = << >> THEN << >> ELSE Head(ss) \o Flatten(Tail(ss))

\* The order in which lines 65-66 visit the addresses.
Addresses == Flatten(dns_servers)

RECURSIVE Sum(_)
Sum(s) == IF s = << >> THEN 0 ELSE Head(s) + Sum(Tail(s))

None == "None"
NoExc == [type |-> "none", at |-> "none"]

----------------------------------------------------------------------------
(* What the environment can answer *)

\* args.interval (line 130, type=float) by the way lines 180 and 121 treat it:
\* "zero" makes line 180 divide by zero; "valid" is a positive finite number
\* that time.sleep accepts; "invalid" is one time.sleep rejects (negative,
\* NaN, too large) with ValueError or OverflowError.
Intervals == { "zero", "valid", "invalid" }

\* One TCP query (line 77): answered after ms milliseconds, timed out
\* (dns.exception.Timeout), or failed otherwise (connection refused, network
\* unreachable: an OSError).
DnsElapsed == { 20 }
DnsOutcomes ==
    [ kind : { "answer" }, ms : DnsElapsed ]
        \cup { [ kind |-> "timeout", ms |-> 0 ], [ kind |-> "oserror", ms |-> 0 ] }

\* The zone lookup (line 101): as above; "dnserror" is a resolver failure
\* other than LifetimeTimeout (NoNameservers, NXDOMAIN, ...).
ZoneOutcomes ==
    [ kind : { "answer" }, ms : DnsElapsed ]
        \cup { [ kind |-> "timeout", ms |-> 0 ], [ kind |-> "dnserror", ms |-> 0 ] }

\* One `ping -c 1 -W 1 host` (line 48).  "output": exit status 0 and a reply
\* line carrying the round-trip time rtt, printed with a decimal point
\* ("time=10.3 ms") or without ("time=123 ms", as iputils prints times of
\* 100 ms and more).  "exit_nonzero": CalledProcessError.  "oserror": the
\* ping program cannot be run (FileNotFoundError).
PingOutcomes ==
    { [ kind |-> "output", rtt |-> 10, decimal |-> TRUE ],
      [ kind |-> "output", rtt |-> 30, decimal |-> TRUE ],
      [ kind |-> "output", rtt |-> 123, decimal |-> FALSE ],
      [ kind |-> "exit_nonzero", rtt |-> 0, decimal |-> FALSE ],
      [ kind |-> "oserror", rtt |-> 0, decimal |-> FALSE ] }

Signals == { "SIGINT", "SIGTERM" }

----------------------------------------------------------------------------
(* Exceptions and where they land *)

\* Subclasses of Exception that the cycle can raise.
ExceptionTypes == { "OSError", "ZeroDivisionError", "ValueError", "DNSException" }

\* Positions inside the try block of lines 186-187.
TryPcs == { "cr_loop", "dns", "zone", "dns_mean", "ping", "ping_mean",
            "append", "sleep" }

\* Positions of a cycle that has begun and not yet appended its row.
InFlightPcs == { "dns", "zone", "dns_mean", "ping", "ping_mean", "append" }

NoRequest == [ cycle |-> 0, inflight |-> FALSE ]

\* Positions where main is no longer running.
Terminal == { "stopped", "crashed", "killed" }

\* Catch, were line 190 `except OSError`: other exceptions leave main.
CatchOnlyOSError(type, at) ==
    IF at \in TryPcs
    THEN IF type = "KeyboardInterrupt" THEN "exit"
         ELSE IF type = "OSError" THEN "backoff"
         ELSE "crashed"
    ELSE "crashed"

\* Catch, were lines 190-195 to end the loop as line 189 does.
CatchBreakOnAny(type, at) ==
    IF at \in TryPcs
    THEN IF type = "KeyboardInterrupt" \/ type \in ExceptionTypes THEN "exit"
         ELSE "crashed"
    ELSE "crashed"

\* lines 186-195: where control goes when an exception of the given type is
\* raised at position `at`.
Catch(type, at) ==
    IF at \in TryPcs
    THEN IF type = "KeyboardInterrupt" THEN "exit"           \* line 189: break
         ELSE IF type \in ExceptionTypes THEN "backoff"      \* lines 190-194
         ELSE "crashed"                                      \* a BaseException
    ELSE "crashed"

ErrorLog(type) == << "ERROR", "Unhandled Exception in MAIN", type >>

\* An exception of the given type is raised at the current position.  An
\* exception that leaves collect_readings unwinds its frame and its locals.
Raise(type) ==
    LET to == Catch(type, pc) IN
    /\ pc' = to
    /\ exc' = IF to = "exit" THEN NoExc ELSE [ type |-> type, at |-> pc ]
    /\ last_log' = IF to = "backoff" THEN ErrorLog(type) ELSE last_log
    /\ times' = << >>
    /\ dns_latency_ms' = None
    /\ latency_ms' = None

----------------------------------------------------------------------------
(* Initial state: main has parsed its arguments (lines 149-172) *)

\* main is a coroutine a host can run after installing signal_handler for
\* SIGINT and SIGTERM (handler_installed = TRUE); the script itself (lines
\* 211-212) installs nothing (handler_installed = FALSE).

\* What the file at csvpath may hold from an earlier run.
OldStores == { << >>, << csvfields, [ t |-> 0 ] >> }

Init ==
    /\ pc = "open"
    /\ exit_flag = FALSE
    /\ handler_installed \in BOOLEAN
    /\ interval \in Intervals
    /\ store \in OldStores
    /\ cycle = 0
    /\ times = << >>
    /\ outcomes = << >>
    /\ dns_latency_ms = None
    /\ latency_ms = None
    /\ exc = NoExc
    /\ last_log = << "INFO", "Running", "" >>
    /\ status = None
    /\ term_requested = FALSE
    /\ must_cancel = FALSE
    /\ slept = FALSE
    /\ at_flag = None
    /\ appends = 0
    /\ header_writes = 0
    /\ probed = << >>
    /\ at_request = NoRequest

----------------------------------------------------------------------------
(* main: startup *)

\* OpenStore, were line 175 to open the file with mode 'a'.
OpenStoreAppendMode ==
    /\ pc = "open"
    /\ \E ok \in BOOLEAN :
         IF ok
         THEN /\ store' = Append(store, csvfields)
              /\ header_writes' = header_writes + 1
              /\ pc' = "estimate"
              /\ UNCHANGED << exc, last_log, times, dns_latency_ms, latency_ms >>
         ELSE /\ Raise("OSError")
              /\ UNCHANGED << store, header_writes >>
    /\ UNCHANGED << exit_flag, handler_installed, interval, cycle, outcomes,
                    status, term_requested, must_cancel, slept, at_flag, appends,
                    probed, at_request >>

\* lines 175-177: open(csvpath, 'w') truncates, then the header is written.
OpenStore ==
    /\ pc = "open"
    /\ \E ok \in BOOLEAN :
         IF ok
         THEN /\ store' = << csvfields >>
              /\ header_writes' = header_writes + 1
              /\ pc' = "estimate"
              /\ UNCHANGED << exc, last_log, times, dns_latency_ms, latency_ms >>
         ELSE /\ Raise("OSError")
              /\ UNCHANGED << store, header_writes >>
    /\ UNCHANGED << exit_flag, handler_installed, interval, cycle, outcomes,
                    status, term_requested, must_cancel, slept, at_flag, appends,
                    probed, at_request >>

\* lines 179-182: kb_per_day = 86400 / args.interval * ...
Estimate ==
    /\ pc = "estimate"
    /\ IF interval = "zero"
       THEN Raise("ZeroDivisionError")
       ELSE /\ pc' = "main_loop"
            /\ last_log' = << "INFO", "CSV size estimate", "" >>
            /\ UNCHANGED << exc, times, dns_latency_ms, latency_ms >>
    /\ UNCHANGED << exit_flag, handler_installed, interval, store, cycle,
                    outcomes, status, term_requested, must_cancel, slept,
                    at_flag, appends,
                    header_writes, probed, at_request >>

----------------------------------------------------------------------------
(* main: the supervising loop *)

\* line 185: while not exit_flag; line 187 enters collect_readings.
MainLoop ==
    /\ pc = "main_loop"
    /\ pc' = IF exit_flag THEN "exit" ELSE "cr_loop"
    /\ UNCHANGED << exit_flag, handler_installed, interval, store, cycle,
                    times, outcomes, dns_latency_ms, latency_ms, exc, last_log,
                    status, term_requested, must_cancel, slept, at_flag, appends,
                    header_writes, probed, at_request >>

\* Backoff, were the restart to run lines 175-177 again.
BackoffRewritesHeader ==
    /\ pc = "backoff"
    /\ pc' = "main_loop"
    /\ exc' = NoExc
    /\ store' = << csvfields >>
    /\ header_writes' = header_writes + 1
    /\ UNCHANGED << exit_flag, handler_installed, interval, cycle,
                    times, outcomes, dns_latency_ms, latency_ms, last_log,
                    status, term_requested, must_cancel, slept, at_flag, appends,
                    probed, at_request >>

\* Backoff, were the restart to reset the flag for the new run.
BackoffClearsFlag ==
    /\ pc = "backoff"
    /\ pc' = "main_loop"
    /\ exc' = NoExc
    /\ exit_flag' = FALSE
    /\ UNCHANGED << handler_installed, interval, store, cycle,
                    times, outcomes, dns_latency_ms, latency_ms, last_log,
                    status, term_requested, must_cancel, slept, at_flag, appends,
                    header_writes, probed, at_request >>

\* lines 194-195: the back-off sleep ends and the loop continues.
Backoff ==
    /\ pc = "backoff"
    /\ pc' = "main_loop"
    /\ exc' = NoExc
    /\ UNCHANGED << exit_flag, handler_installed, interval, store, cycle,
                    times, outcomes, dns_latency_ms, latency_ms, last_log,
                    status, term_requested, must_cancel, slept, at_flag, appends,
                    header_writes, probed, at_request >>

\* lines 198-208: log the uptime and return 0.
Exit ==
    /\ pc = "exit"
    /\ pc' = "stopped"
    /\ last_log' = << "INFO", "Stopped", "Uptime" >>
    /\ status' = CleanStatus
    /\ UNCHANGED << exit_flag, handler_installed, interval, store, cycle,
                    times, outcomes, dns_latency_ms, latency_ms, exc,
                    term_requested, must_cancel, slept, at_flag, appends,
                    header_writes, probed, at_request >>

----------------------------------------------------------------------------
(* collect_readings *)

\* CrLoop, were line 113 `while True`.
CrLoopIgnoringFlag ==
    /\ pc = "cr_loop"
    /\ cycle < MaxCycles
    /\ cycle' = cycle + 1
    /\ pc' = "dns"
    /\ times' = << >>
    /\ outcomes' = << >>
    /\ probed' = << >>
    /\ UNCHANGED << exit_flag, handler_installed, interval, store,
                    dns_latency_ms, latency_ms, exc, last_log, status,
                    term_requested, must_cancel, slept, at_flag, appends,
                    header_writes, at_request >>

\* line 113: while not exit_flag; a new cycle begins with line 114 entering
\* get_dns_latency_ms (lines 63-64).
CrLoop ==
    /\ pc = "cr_loop"
    /\ IF exit_flag
       THEN /\ pc' = "main_loop"
            /\ UNCHANGED << cycle, times, outcomes, probed >>
       ELSE /\ cycle < MaxCycles
            /\ cycle' = cycle + 1
            /\ pc' = "dns"
            /\ times' = << >>
            /\ outcomes' = << >>
            /\ probed' = << >>
    /\ UNCHANGED << exit_flag, handler_installed, interval, store,
                    dns_latency_ms, latency_ms, exc, last_log, status,
                    term_requested, must_cancel, slept, at_flag, appends,
                    header_writes, at_request >>

\* DnsTimes, were lines 96 and 106 missing: a timeout adds nothing.
DnsTimesSkipTimeout(ts, o) ==
    IF o.kind = "timeout" THEN ts ELSE Append(ts, o.ms)

\* lines 76-80 and 94-97: what one address adds to `times`.
DnsTimes(ts, o) ==
    IF o.kind = "timeout" THEN Append(ts, 0) ELSE Append(ts, o.ms)

\* lines 65-97: the query to the next address.
DnsProbe ==
    /\ pc = "dns"
    /\ ~must_cancel
    /\ \E o \in DnsOutcomes :
         LET s == Addresses[Len(outcomes) + 1] IN
         IF o.kind = "oserror"
         THEN /\ Raise("OSError")
              /\ UNCHANGED << outcomes, probed >>
         ELSE /\ times' = DnsTimes(times, o)
              /\ outcomes' = Append(outcomes, o)
              /\ probed' = Append(probed, s)
              /\ last_log' = IF o.kind = "timeout"
                             THEN << "ERROR", "dns timeout", s >>
                             ELSE << "DEBUG", "tcp_seconds", s >>
              /\ pc' = IF Len(outcomes) + 1 = Len(Addresses) THEN "zone" ELSE "dns"
              /\ UNCHANGED << exc, dns_latency_ms, latency_ms >>
    /\ UNCHANGED << exit_flag, handler_installed, interval, store, cycle,
                    status, term_requested, must_cancel, slept, at_flag, appends,
                    header_writes, at_request >>

\* lines 99-106: the zone lookup.
ZoneLookup ==
    /\ pc = "zone"
    /\ ~must_cancel
    /\ \E o \in ZoneOutcomes :
         IF o.kind = "dnserror"
         THEN /\ Raise("DNSException")
              /\ UNCHANGED << outcomes, probed >>
         ELSE /\ times' = DnsTimes(times, o)
              /\ outcomes' = Append(outcomes, o)
              /\ probed' = Append(probed, dns_name)
              /\ last_log' = IF o.kind = "timeout"
                             THEN << "ERROR", "resolver timeout", dns_name >>
                             ELSE last_log
              /\ pc' = "dns_mean"
              /\ UNCHANGED << exc, dns_latency_ms, latency_ms >>
    /\ UNCHANGED << exit_flag, handler_installed, interval, store, cycle,
                    status, term_requested, must_cancel, slept, at_flag, appends,
                    header_writes, at_request >>

\* lines 108-109: sum(times)/len(times) seconds, times 1000.  The entries of
\* `times` are milliseconds, that is thousandths of the seconds of the code.
DnsAverage(ts) == [ num |-> Sum(ts) * 1000, den |-> Len(ts) * 1000 ]

\* lines 108-109 return to line 114; line 115 enters get_ping_latency_ms
\* (line 44).
DnsMean ==
    /\ pc = "dns_mean"
    /\ dns_latency_ms' = DnsAverage(times)
    /\ times' = << >>
    /\ outcomes' = << >>
    /\ probed' = << >>
    /\ pc' = "ping"
    /\ UNCHANGED << exit_flag, handler_installed, interval, store, cycle,
                    latency_ms, exc, last_log, status, term_requested,
                    must_cancel, slept, at_flag, appends,
                    header_writes, at_request >>

\* line 49: re.search(r'time=?([0-9]*\.[0-9]+) ms', response) finds a time
\* only when it is printed with a decimal point.  The match is a sequence:
\* empty for no match, else the one captured number.
Reading(o) == IF o.kind = "output" /\ o.decimal THEN << o.rtt >> ELSE << >>

\* PingTimes, were a failed host to add 0.0 as line 96 does for DNS.
PingTimesZeroOnFailure(ts, o) ==
    IF o.kind = "exit_nonzero" THEN Append(ts, 0)
    ELSE IF Reading(o) # << >> THEN Append(ts, Reading(o)[1])
    ELSE ts

\* lines 48-56: what one host adds to `times`.
PingTimes(ts, o) ==
    IF o.kind = "exit_nonzero" THEN ts
    ELSE IF Reading(o) # << >> THEN Append(ts, Reading(o)[1])
    ELSE ts

\* lines 45-56: the ping of the next host.
PingProbe ==
    /\ pc = "ping"
    /\ \E o \in PingOutcomes :
         LET p == ping_servers[Len(outcomes) + 1] IN
         IF o.kind = "oserror"
         THEN /\ Raise("OSError")
              /\ UNCHANGED << outcomes, probed >>
         ELSE /\ times' = PingTimes(times, o)
              /\ outcomes' = Append(outcomes, o)
              /\ probed' = Append(probed, p)
              /\ last_log' = IF o.kind = "exit_nonzero"
                             THEN << "ERROR", "ping timeout", p >>
                             ELSE last_log
              /\ pc' = IF Len(outcomes) + 1 = Len(ping_servers)
                       THEN "ping_mean" ELSE "ping"
              /\ UNCHANGED << exc, dns_latency_ms, latency_ms >>
    /\ UNCHANGED << exit_flag, handler_installed, interval, store, cycle,
                    status, term_requested, must_cancel, slept, at_flag, appends,
                    header_writes, at_request >>

\* line 58: sum(times)/len(times)
PingAverage(ts) == [ num |-> Sum(ts), den |-> Len(ts) ]

\* line 58 returns to line 115; line 116 logs both latencies.
PingMean ==
    /\ pc = "ping_mean"
    /\ IF Len(times) = 0
       THEN Raise("ZeroDivisionError")
       ELSE /\ latency_ms' = PingAverage(times)
            /\ times' = << >>
            /\ last_log' = << "INFO", "dns_latency_ms, ping_latency_ms", "" >>
            /\ pc' = "append"
            /\ UNCHANGED << exc, dns_latency_ms >>
    /\ UNCHANGED << exit_flag, handler_installed, interval, store, cycle,
                    outcomes, status, term_requested, must_cancel, slept,
                    at_flag, appends,
                    header_writes, probed, at_request >>

\* line 120: the row written for a cycle; dt.now() is the cycle's number.
Row(c) == [ t |-> c ]

\* AppendRow, were line 121 missing: the loop goes on without sleeping.
AppendRowNoSleep ==
    /\ pc = "append"
    /\ \E ok \in BOOLEAN :
         IF ok
         THEN /\ store' = Append(store, Row(cycle))
              /\ appends' = appends + 1
              /\ slept' = FALSE
              /\ pc' = "cr_loop"
              /\ UNCHANGED << exc, last_log, times, dns_latency_ms, latency_ms >>
         ELSE /\ Raise("OSError")
              /\ UNCHANGED << store, slept, appends >>
    /\ UNCHANGED << exit_flag, handler_installed, interval, cycle, outcomes,
                    status, term_requested, must_cancel, at_flag,
                    header_writes, probed, at_request >>

\* AppendRow, were line 118 to open the file with mode 'w' and write the
\* header before the row.
AppendRowTruncating ==
    /\ pc = "append"
    /\ \E ok \in BOOLEAN :
         IF ok
         THEN /\ store' = << csvfields, Row(cycle) >>
              /\ appends' = appends + 1
              /\ slept' = FALSE
              /\ pc' = "sleep"
              /\ UNCHANGED << exc, last_log, times, dns_latency_ms, latency_ms >>
         ELSE /\ Raise("OSError")
              /\ UNCHANGED << store, slept, appends >>
    /\ UNCHANGED << exit_flag, handler_installed, interval, cycle, outcomes,
                    status, term_requested, must_cancel, at_flag,
                    header_writes, probed, at_request >>

\* lines 118-120: open(csvfile, 'a') and one writerow; the open or the write
\* may fail (OSError).
AppendRow ==
    /\ pc = "append"
    /\ \E ok \in BOOLEAN :
         IF ok
         THEN /\ store' = Append(store, Row(cycle))
              /\ appends' = appends + 1
              /\ slept' = FALSE
              /\ pc' = "sleep"
              /\ UNCHANGED << exc, last_log, times, dns_latency_ms, latency_ms >>
         ELSE /\ Raise("OSError")
              /\ UNCHANGED << store, slept, appends >>
    /\ UNCHANGED << exit_flag, handler_installed, interval, cycle, outcomes,
                    status, term_requested, must_cancel, at_flag,
                    header_writes, probed, at_request >>

\* line 121: time.sleep(interval) ends.  The values of this iteration are
\* rebound by lines 114-115 before anything reads them again.
Sleep ==
    /\ pc = "sleep"
    /\ IF interval = "valid"
       THEN /\ slept' = TRUE
            /\ pc' = "cr_loop"
            /\ dns_latency_ms' = None
            /\ latency_ms' = None
            /\ UNCHANGED << exc, last_log, times >>
       ELSE /\ Raise("ValueError")
            /\ UNCHANGED slept
    /\ UNCHANGED << exit_flag, handler_installed, interval, store, cycle,
                    outcomes, status, term_requested, must_cancel, at_flag, appends,
                    header_writes, probed, at_request >>

----------------------------------------------------------------------------
(* Signals *)

\* lines 137-144, when the host has installed the handler for the signal.
signal_handler(sig) ==
    /\ handler_installed
    /\ pc \notin Terminal
    /\ last_log' = << "WARNING", "Received OS process signal", sig >>
    /\ exit_flag' = TRUE
    /\ term_requested' = TRUE
    /\ at_flag' = IF exit_flag THEN at_flag
                  ELSE [ cycle |-> cycle, rows |-> Len(store) ]
    /\ at_request' = IF term_requested THEN at_request
                     ELSE [ cycle |-> cycle, inflight |-> pc \in InFlightPcs ]
    /\ UNCHANGED << pc, handler_installed, interval, store, cycle, times,
                    outcomes, dns_latency_ms, latency_ms, exc, status,
                    must_cancel, slept, appends,
                    header_writes, probed >>

\* No line of the source calls signal.signal: run as a script (lines 211-212)
\* the process keeps the default dispositions.  SIGTERM ends the process.
\* SIGINT either raises KeyboardInterrupt at the statement being executed
\* (Python's default handler), or cancels main's task (asyncio's runner):
\* CancelledError is then raised at the await the task is suspended in, or
\* at the next one it reaches.
DefaultSignal(sig) ==
    /\ ~handler_installed
    /\ pc \notin Terminal
    /\ term_requested' = TRUE
    /\ \/ /\ sig = "SIGTERM"
          /\ pc' = "killed"
          /\ exc' = [ type |-> "SIGTERM", at |-> pc ]
          /\ UNCHANGED << last_log, times, dns_latency_ms, latency_ms,
                          must_cancel >>
       \/ /\ sig = "SIGINT"
          /\ Raise("KeyboardInterrupt")
          /\ UNCHANGED must_cancel
       \/ /\ sig = "SIGINT"
          /\ IF pc \in { "dns", "zone" }
             THEN Raise("CancelledError") /\ UNCHANGED must_cancel
             ELSE /\ must_cancel' = TRUE
                  /\ UNCHANGED << pc, exc, last_log, times, dns_latency_ms,
                                  latency_ms >>
    /\ at_request' = IF term_requested THEN at_request
                     ELSE [ cycle |-> cycle, inflight |-> pc \in InFlightPcs ]
    /\ UNCHANGED << exit_flag, handler_installed, interval, store, cycle,
                    outcomes, status, slept, at_flag, appends,
                    header_writes, probed >>

\* The pending cancellation is delivered at the await of line 77 or 101.
Cancelled ==
    /\ must_cancel
    /\ pc \in { "dns", "zone" }
    /\ Raise("CancelledError")
    /\ UNCHANGED << exit_flag, handler_installed, interval, store, cycle,
                    outcomes, status, term_requested, must_cancel, slept,
                    at_flag, appends,
                    header_writes, probed, at_request >>

----------------------------------------------------------------------------

Next ==
    \/ OpenStore
    \/ Estimate
    \/ MainLoop
    \/ Backoff
    \/ Exit
    \/ CrLoop
    \/ DnsProbe
    \/ ZoneLookup
    \/ DnsMean
    \/ PingProbe
    \/ PingMean
    \/ AppendRow
    \/ Sleep
    \/ \E sig \in Signals : signal_handler(sig)
    \/ \E sig \in Signals : DefaultSignal(sig)
    \/ Cancelled

Spec == Init /\ [][Next]_vars

----------------------------------------------------------------------------
(* Properties *)

\* An exception of a subclass of Exception raised inside a cycle.
CycleException(e) == e.type \in ExceptionTypes /\ e.at \in TryPcs

UptimeLog == << "INFO", "Stopped", "Uptime" >>

\* C1: every exception that escapes a cycle (an aggregator call, the append,
\* the sleep) is caught by main's loop, which logs it and enters the back-off;
\* the back-off ends at the loop condition of line 185; and main never ends
\* on such an exception while no termination has been requested.
C1_CycleExceptionRestarts ==
    [][ /\ (exc' # exc /\ CycleException(exc'))
            => (pc' = "backoff" /\ last_log' = ErrorLog(exc'.type))
        /\ (pc = "backoff" /\ pc' # "backoff")
            => (pc' = "main_loop" \/ term_requested')
        /\ (pc' \in Terminal /\ ~term_requested')
            => ~CycleException(exc') ]_vars

\* C1 witness: a second cycle is probing although the first one wrote no row
\* and nobody asked for termination: the first cycle failed and was restarted.
C1_Witness ==
    cycle = 2 /\ pc = "dns" /\ appends = 0 /\ ~term_requested /\ exc = NoExc

\* C2: once exit_flag is set no iteration of collect_readings' loop begins
\* (the cycle counter stays where it was when the flag was set, wherever the
\* program was then), and at most one more row is appended.
C2_NoNewCycleAfterFlag ==
    exit_flag => /\ cycle = at_flag.cycle
                 /\ Len(store) <= at_flag.rows + 1

\* C2 witness: the flag was set while the first cycle was in flight; that
\* cycle appended its row and main stopped without beginning another.
C2_Witness ==
    /\ exit_flag
    /\ pc = "stopped"
    /\ at_flag.cycle = 1
    /\ at_flag.rows = 1
    /\ Len(store) = 2
    /\ cycle = 1

\* C3: a delivered SIGINT or SIGTERM sets exit_flag through the handler, and
\* when main has ended after it, it has returned 0 with the uptime logged.
C3_TerminationRequestSetsFlag ==
    term_requested =>
        /\ exit_flag
        /\ pc \in Terminal => (pc = "stopped" /\ status = CleanStatus
                                /\ last_log = UptimeLog)

\* A ping the aggregator has no time for: non-zero exit, or no time found.
PingFailed(o) == o.kind = "exit_nonzero" \/ (o.kind = "output" /\ ~o.decimal)
PingSucceeded(o) == o.kind = "output" /\ o.decimal

\* The ping aggregator has probed every host of this cycle.
PingsDone ==
    /\ Len(outcomes) = Len(ping_servers)
    /\ \A i \in 1..Len(outcomes) : outcomes[i].kind \in { "output", "exit_nonzero" }

NoData == "no data"

\* C4: when every ping host of a cycle fails, the aggregator raises no
\* arithmetic exception but yields "no data", and the cycle goes on to append
\* its sample with that ping field.
C4_AllPingsFailedNoData ==
    (PingsDone /\ \A i \in 1..Len(outcomes) : PingFailed(outcomes[i])) =>
        /\ exc # [ type |-> "ZeroDivisionError", at |-> "ping_mean" ]
        /\ pc \in { "append", "sleep" } => latency_ms = NoData

\* C5: once startup has written the header, the store holds the header and
\* one row for each cycle that has completed its append.
C5_RowCount ==
    (pc # "open" /\ exc.at # "open") =>
        /\ Len(store) = appends + 1
        /\ store[1] = csvfields

\* C5 witness: one cycle failed, another appended, over an old file.
C5_Witness ==
    cycle = 2 /\ appends = 1 /\ Len(store) = 2 /\ pc = "sleep"

RECURSIVE Total(_)
\* The sum of a sequence of numbers.
Total(s) == IF s = << >> THEN 0 ELSE Total(Tail(s)) + Head(s)

PingSucceededIn(s) == SelectSeq(s, PingSucceeded)
\* Round-trip times of the hosts of s that succeeded.
SuccessRtts(s) ==
    [ i \in 1..Len(PingSucceededIn(s)) |-> PingSucceededIn(s)[i].rtt ]

Answered(o) == o.kind = "answer"
AnsweredIn(s) == SelectSeq(s, Answered)
\* Elapsed times of the probes of s that were answered.
SuccessMs(s) == [ i \in 1..Len(AnsweredIn(s)) |-> AnsweredIn(s)[i].ms ]

C7_DnsMeanOfSuccesses ==
    [][ (pc = "dns_mean" /\ pc' = "ping"
           /\ Len(SuccessMs(outcomes)) > 0)
        => dns_latency_ms'.num * Len(SuccessMs(outcomes))
             = Total(SuccessMs(outcomes)) * dns_latency_ms'.den ]_vars

\* Rows are in the order of their cycles.
RowsInOrder ==
    \A i, j \in 2..Len(store) : i < j => store[i].t < store[j].t

\* A cycle is probing or about to append.
InCycle == pc \in { "dns", "zone", "dns_mean", "ping", "ping_mean", "append" }

\* C8 as stated: whenever a cycle is at work after some row was appended, the
\* sleep that followed the latest append has completed, and rows are in the
\* order of their cycles.
C8_SleepBetweenAppends ==
    /\ (InCycle /\ appends > 0) => slept
    /\ RowsInOrder

\* C8 amended: the same, for an interval that time.sleep accepts.
C8_SleepBetweenAppendsValidInterval ==
    interval = "valid" => C8_SleepBetweenAppends

\* C8 witness: the second cycle is about to append its row, after the first
\* row and a full sleep.
C8_Witness ==
    interval = "valid" /\ pc = "append" /\ appends = 1 /\ cycle = 2 /\ slept

\* C9: main has stopped (uptime logged, 0 returned) only after a termination
\* request: a signal that set the flag or raised KeyboardInterrupt.
C9_StopsOnlyOnRequest ==
    pc = "stopped" => term_requested

\* C9 witness: main stopped on a KeyboardInterrupt caught by line 188.
C9_Witness ==
    pc = "stopped" /\ ~exit_flag /\ status = CleanStatus /\ last_log = UptimeLog

\* C10: whenever main has ended, by return or by an exception, it has logged
\* the uptime and its status is 0.
C10_EveryExitLogs ==
    pc \in { "stopped", "crashed" } =>
        (last_log = UptimeLog /\ status = CleanStatus)

\* The row of cycle c is in the store.
RowWritten(c) == \E i \in 2..Len(store) : store[i] = Row(c)

\* C11: a termination request that arrives while a cycle is in flight does
\* not interrupt it: nothing ends the process or the cycle because of the
\* request, and when main has returned the cycle's row is in the store.
C11_InFlightCycleCompletes ==
    (term_requested /\ at_request.inflight) =>
        /\ exc.type \notin { "SIGTERM", "KeyboardInterrupt", "CancelledError" }
        /\ pc = "stopped" => RowWritten(at_request.cycle)

\* C12: the header is written once in the life of the process and, from then
\* on, is the first row of a store that holds every appended row, whatever
\* restarts follow.
C12_HeaderOnce ==
    /\ header_writes <= 1
    /\ (pc # "open" /\ exc.at # "open") =>
          /\ header_writes = 1
          /\ Len(store) > appends
          /\ store[1] = csvfields

\* C12 witness: main is back at its loop condition after a cycle that
\* appended its row and then failed in the sleep of line 121.
C12_Witness ==
    /\ pc = "main_loop"
    /\ interval = "invalid"
    /\ ~exit_flag
    /\ appends = 1
    /\ header_writes = 1
    /\ Len(store) = 2

\* C13: while the DNS aggregation runs, the addresses have been probed once
\* each in table order with one entry of `times` per probe, timeouts
\* included; at its end every address and the zone have been probed once and
\* `times` holds one entry more than there are addresses (8).
C13_EveryDnsProbeOnce ==
    /\ pc \in { "dns", "zone" } =>
          /\ probed = SubSeq(Addresses, 1, Len(probed))
          /\ Len(times) = Len(probed)
          /\ (pc = "zone") = (Len(probed) = Len(Addresses))
    /\ pc = "dns_mean" =>
          /\ probed = Append(Addresses, dns_name)
          /\ Len(outcomes) = Len(Addresses) + 1
          /\ Len(times) = Len(Addresses) + 1
          /\ Len(times) = 8

\* C13 witness: the first address and the zone lookup timed out, the second
\* address answered, and the aggregation is about to compute its mean.
C13_Witness ==
    /\ pc = "dns_mean"
    /\ outcomes[1].kind = "timeout"
    /\ outcomes[2].kind = "answer"
    /\ outcomes[Len(Addresses) + 1].kind = "timeout"

\* C14: every ping that fails, by non-zero exit or by output with no time
\* the code can read, probes the next host of the list once, adds nothing
\* to `times`, is logged at error level and lets the loop go on.
C14_FailedPingLogged ==
    [][ (pc = "ping" /\ Len(outcomes') = Len(outcomes) + 1
           /\ PingFailed(outcomes'[Len(outcomes')]))
        => /\ probed' = Append(probed, ping_servers[Len(outcomes')])
           /\ times' = times
           /\ last_log' = << "ERROR", "ping timeout", ping_servers[Len(outcomes')] >>
           /\ pc' \in { "ping", "ping_mean" } ]_vars

\* C15: after the header is written every step leaves the store as it was
\* or adds one row at its end.
C15_AppendOnly ==
    [][ pc # "open" =>
          /\ Len(store') \in { Len(store), Len(store) + 1 }
          /\ SubSeq(store', 1, Len(store)) = store ]_vars

\* C15 witness: two cycles appended their rows in turn and main has stopped.
C15_Witness ==
    /\ pc = "stopped"
    /\ Len(store) = 3
    /\ store[2] = Row(1)
    /\ store[3] = Row(2)

\* A step of signal_handler.
HandlerStep ==
    /\ handler_installed
    /\ \E sig \in Signals :
         last_log' = << "WARNING", "Received OS process signal", sig >>
    /\ exit_flag'

\* C16: exit_flag starts false, only signal_handler changes it, and once
\* true it stays true.
C16_FlagMonotonic ==
    /\ exit_flag = FALSE
    /\ [][ /\ exit_flag => exit_flag'
           /\ exit_flag' # exit_flag => HandlerStep ]_vars

\* C16 witness: the flag, set while a cycle was in flight, is still set after
\* that cycle's append, the failure of its sleep and the caught exception.
C16_Witness ==
    /\ exit_flag
    /\ pc = "backoff"
    /\ exc.at = "sleep"
    /\ Len(store) = at_flag.rows + 1

====
